---- MODULE Spec2Model ----
(***************************************************************************)
(* Model of app.py, the Pilot Training Portal: FORM_CONFIG, init_db, the   *)
(* per-form submit_form callbacks and display_admin_table, over a model of *)
(* the SQLite file DB_FILE.                                                *)
(*                                                                         *)
(* Python values are tagged records [t, s, d]:                             *)
(*   None        [t |-> "none"]                                            *)
(*   a string    [t |-> "str", s |-> the string]                           *)
(*   an integer  [t |-> "int", d |-> its base-65536 digits, low first]     *)
(* so that an integer beyond 32 bits (SQLite's INTEGER is 64 bits wide) is *)
(* representable.                                                          *)
(***************************************************************************)
EXTENDS Integers, Sequences, FiniteSets, TLC

VARIABLES pc, tables, call, calls, result, created, inserted, lastInserted

\* pc            "boot" before init_db has run, "serving" once app.run serves
\* tables        the database file: table name -> table
\* call          the handler that ran last, with its arguments
\* calls         the statements that handler sent to the database, in order
\* result        what that handler returned
\* created       the tables that init_db created (history)
\* inserted      per table, the number of Success results returned (history)
\* lastInserted  per table, the values of the last Success submission (history)
vars == <<pc, tables, call, calls, result, created, inserted, lastInserted>>

(* ---------------- bounds ---------------- *)

\* Submissions are explored while the store holds fewer rows than this.
MaxRows == 2

(* ---------------- Python values ---------------- *)

None == [t |-> "none", s |-> "", d |-> <<>>]

Str(s) == [t |-> "str", s |-> s, d |-> <<>>]

IntVal(d) == [t |-> "int", s |-> "", d |-> d]

\* Truthy, taking only None for false.
Truthy_NoneOnly(v) == v.t # "none"

\* Python truthiness of a value, as in `if not n_clicks` / `if not table_name`.
Truthy(v) ==
    /\ v.t # "none"
    /\ ~(v.t = "str" /\ v.s = "")
    /\ ~(v.t = "int" /\ \A i \in 1..Len(v.d) : v.d[i] = 0)

\* 2^63 - 1 and 2^63, the largest SQLite INTEGER and the first integer beyond it.
MaxInt64 == IntVal(<<65535, 65535, 65535, 32767>>)

MinTooBig == IntVal(<<0, 0, 0, 32768>>)

(* ---------------- FORM_CONFIG ---------------- *)

Q(id, type) == [id |-> id, type |-> type]

FORM_CONFIG ==
    << [name |-> "EBT Modules Forms", table_name |-> "EbtModules",
        questions |-> << Q("ModuleNumber", "number"), Q("Competency", "dropdown"),
                         Q("PerformanceScore", "number") >>],
       [name |-> "Additional FSTD Forms", table_name |-> "AdditionalFstd",
        questions |-> << Q("DeviceID", "text"), Q("Maneuver", "dropdown"),
                         Q("Outcome", "dropdown") >>],
       [name |-> "Bespoke Additional FSTD Forms", table_name |-> "BespokeFstd",
        questions |-> << Q("ScenarioName", "text"), Q("TrainingObjective", "textarea"),
                         Q("PilotFeedback", "textarea") >>],
       [name |-> "Out of Phase Assessment Forms", table_name |-> "OutOfPhaseAssessment",
        questions |-> << Q("AssessmentReason", "dropdown"), Q("AssessorName", "text"),
                         Q("FinalRecommendation", "textarea") >>],
       [name |-> "Line Event Forms", table_name |-> "LineEvents",
        questions |-> << Q("FlightNumber", "text"), Q("DepartureAirport", "text"),
                         Q("EventObserved", "textarea") >>],
       [name |-> "EBT-I AOC Forms", table_name |-> "EbtiAoc",
        questions |-> << Q("AocReference", "text"), Q("IsConfirmed", "dropdown"),
                         Q("ConfirmationDate", "date") >>],
       [name |-> "Technical Ground Training Forms", table_name |-> "GroundTraining",
        questions |-> << Q("CourseTitle", "text"), Q("AssessmentScore", "number"),
                         Q("InstructorFeedback", "textarea") >>],
       [name |-> "Appendix 10 Forms", table_name |-> "Appendix10",
        questions |-> << Q("FlightHours", "number"), Q("AircraftType", "text"),
                         Q("EndorsementSought", "text") >>],
       [name |-> "Command Upgrade Forms", table_name |-> "CommandUpgrade",
        questions |-> << Q("YearsAsFirstOfficer", "number"), Q("CheckCaptain", "text"),
                         Q("UpgradeReadiness", "dropdown") >> ] >>

Forms == 1..Len(FORM_CONFIG)

DeclaredTables == { FORM_CONFIG[f].table_name : f \in Forms }

\* A name the admin selector never offers, but the callback accepts.
UndeclaredTable == "NoSuchTable"

TableNames == DeclaredTables \cup {UndeclaredTable}

(* ---------------- the SQLite file ---------------- *)

\* A table is NoTable (absent) or [columns, rows, seq]: its ordered column
\* definitions, its set of rows [ID, vals] and the AUTOINCREMENT sequence.
NoTable == [exists |-> FALSE, columns |-> <<>>, rows |-> {}, seq |-> 0]

Col(name, type) == [name |-> name, type |-> type]

\* The table named t of the file db; a name the file does not hold is absent.
Table(db, t) == IF t \in DOMAIN db THEN db[t] ELSE NoTable

ColumnNames(tbl) == { tbl.columns[i].name : i \in 1..Len(tbl.columns) }

TotalRows(db) ==
    LET RECURSIVE Sum(_)
        Sum(S) == IF S = {} THEN 0
                  ELSE LET t == CHOOSE t \in S : TRUE
                       IN Cardinality(db[t].rows) + Sum(S \ {t})
    IN Sum(TableNames)

(* ---------------- sqlite3 / pandas, as the handlers use them ---------------- *)

NoError == [cls |-> "", msg |-> ""]

Error(cls, msg) == [cls |-> cls, msg |-> msg]

\* The exception classes that derive from sqlite3.Error.
IsSqlite3Error(e) == e.cls \in {"OperationalError", "ProgrammingError", "IntegrityError"}

\* An integer binds to SQLite's 64-bit signed INTEGER only when it is below 2^63.
FitsInt64(v) ==
    \/ v.t # "int"
    \/ Len(v.d) < 4
    \/ Len(v.d) = 4 /\ v.d[4] < 32768

\* CreateTableIfNotExists as DROP TABLE followed by CREATE TABLE.
CreateTable_Replace(db, t, columns) ==
    [db EXCEPT ![t] = [exists |-> TRUE, columns |-> columns, rows |-> {}, seq |-> 0]]

\* CREATE TABLE IF NOT EXISTS t (columns): a no-op on a table that exists.
CreateTableIfNotExists(db, t, columns) ==
    IF Table(db, t).exists THEN db
    ELSE [db EXCEPT ![t] = [exists |-> TRUE, columns |-> columns, rows |-> {}, seq |-> 0]]

\* The error of INSERT INTO t (columns) VALUES (?, ...) bound to values:
\* the statement is prepared first, the parameters are bound after.
InsertError(db, t, columns, values) ==
    IF ~Table(db, t).exists
    THEN Error("OperationalError", "no such table: " \o t)
    ELSE IF \E i \in 1..Len(columns) : columns[i] \notin ColumnNames(Table(db, t))
    THEN LET i == CHOOSE i \in 1..Len(columns) :
                     /\ columns[i] \notin ColumnNames(Table(db, t))
                     /\ \A j \in 1..(i - 1) : columns[j] \in ColumnNames(Table(db, t))
         IN Error("OperationalError",
                  "table " \o t \o " has no column named " \o columns[i])
    ELSE IF \E i \in 1..Len(values) : ~FitsInt64(values[i])
    THEN Error("OverflowError", "Python int too large to convert to SQLite INTEGER")
    ELSE NoError

\* ID INTEGER PRIMARY KEY AUTOINCREMENT: one more than the largest ID ever used.
NextId(tbl) == tbl.seq + 1

\* InsertRow as INSERT OR REPLACE over the whole table.
InsertRow_Overwrite(db, t, columns, values) ==
    LET tbl == Table(db, t)
        row == [ID |-> NextId(tbl),
                vals |-> [c \in ColumnNames(tbl) \ {"ID"} |->
                            IF \E i \in 1..Len(columns) : columns[i] = c
                            THEN values[CHOOSE i \in 1..Len(columns) : columns[i] = c]
                            ELSE None]]
    IN [db EXCEPT ![t] = [tbl EXCEPT !.rows = {row}, !.seq = NextId(tbl)]]

\* The committed INSERT: one new row, the named columns set, the others NULL.
InsertRow(db, t, columns, values) ==
    LET tbl == Table(db, t)
        id  == NextId(tbl)
        row == [ID |-> id,
                vals |-> [c \in ColumnNames(tbl) \ {"ID"} |->
                            IF \E i \in 1..Len(columns) : columns[i] = c
                            THEN values[CHOOSE i \in 1..Len(columns) : columns[i] = c]
                            ELSE None]]
    IN [db EXCEPT ![t] = [tbl EXCEPT !.rows = tbl.rows \cup {row}, !.seq = id]]

\* OrderByIdDesc with the order reversed (ORDER BY ID).
RECURSIVE OrderByIdAsc(_)
OrderByIdAsc(rows) ==
    IF rows = {} THEN <<>>
    ELSE LET low == CHOOSE r \in rows : \A q \in rows : r.ID <= q.ID
         IN <<low>> \o OrderByIdAsc(rows \ {low})

\* ORDER BY ID DESC over a set of rows.
RECURSIVE OrderByIdDesc(_)
OrderByIdDesc(rows) ==
    IF rows = {} THEN <<>>
    ELSE LET top == CHOOSE r \in rows : \A q \in rows : q.ID <= r.ID
         IN <<top>> \o OrderByIdDesc(rows \ {top})

\* pd.read_sql("SELECT * FROM t ORDER BY ID DESC"): pandas wraps the failure.
SelectError(db, t) ==
    IF ~Table(db, t).exists
    THEN Error("DatabaseError", "no such table: " \o t)
    ELSE NoError

(* ---------------- what a handler returns ---------------- *)

NoResult == [kind |-> "none", is_open |-> FALSE, children |-> "", color |-> "",
             data |-> <<>>, columns |-> <<>>]

\* The (is_open, children, color) outputs of an alert.
Alert(is_open, children, color) ==
    [kind |-> "alert", is_open |-> is_open, children |-> children, color |-> color,
     data |-> <<>>, columns |-> <<>>]

\* dash_table.DataTable(data = records, columns = column ids).
DataTable(data, columns) ==
    [kind |-> "table", is_open |-> FALSE, children |-> "", color |-> "",
     data |-> data, columns |-> columns]

\* The exception leaves the handler.
Raised(e) ==
    [kind |-> "raise", is_open |-> FALSE, children |-> e.msg, color |-> e.cls,
     data |-> <<>>, columns |-> <<>>]

(* ---------------- init_db ---------------- *)

\* SqlType without the number branch.
SqlType_AllText(type) == "TEXT"

SqlType(type) == IF type = "number" THEN "REAL" ELSE "TEXT"

FixedColumns ==
    << Col("ID", "INTEGER PRIMARY KEY AUTOINCREMENT"), Col("SubmissionDate", "TEXT"),
       Col("TrainerName", "TEXT"), Col("TrainingDate", "TEXT") >>

\* The column list init_db builds for one form.
DeriveColumns(config) ==
    FixedColumns \o
    [i \in 1..Len(config.questions) |->
        Col(config.questions[i].id, SqlType(config.questions[i].type))]

\* The loop of init_db over FORM_CONFIG, forms 1..n done.
RECURSIVE InitDbLoop(_, _)
InitDbLoop(db, n) ==
    IF n = 0 THEN db
    ELSE CreateTableIfNotExists(InitDbLoop(db, n - 1), FORM_CONFIG[n].table_name,
                                DeriveColumns(FORM_CONFIG[n]))

init_db(db) == InitDbLoop(db, Len(FORM_CONFIG))

(* ---------------- submit_form, per form ---------------- *)

\* question_ids = list(config['questions'].keys())
QuestionIds(config) == [i \in 1..Len(config.questions) |-> config.questions[i].id]

\* AnyMissing without the empty-string test.
AnyMissing_NoneOnly(args) == \E i \in 1..Len(args) : args[i].t = "none"

\* any(val is None or val == '' for val in args)
AnyMissing(args) ==
    \E i \in 1..Len(args) : args[i].t = "none" \/ (args[i].t = "str" /\ args[i].s = "")

\* columns = ['SubmissionDate', 'TrainerName', 'TrainingDate'] + question_ids
InsertColumns(config) ==
    <<"SubmissionDate", "TrainerName", "TrainingDate">> \o QuestionIds(config)

\* InsertValues with trainer name and training date exchanged.
InsertValues_Swapped(now, args) ==
    <<Str(now), args[2], args[1]>> \o SubSeq(args, 3, Len(args))

\* values = [now, trainer_name, training_date] + dynamic_values
InsertValues(now, args) ==
    <<Str(now), args[1], args[2]>> \o SubSeq(args, 3, Len(args))

\* except sqlite3.Error as ex: any other exception leaves the callback.
SubmitCatches(e) == IsSqlite3Error(e)

\* if not n_clicks: return False, "", "light"
NoClickResult == Alert(FALSE, "", "light")

\* ValidationFailure with the colour of the no-click result.
ValidationFailure_Light == Alert(TRUE, "Please fill out all required fields.", "light")

ValidationFailure == Alert(TRUE, "Please fill out all required fields.", "warning")

Success == Alert(TRUE, "Form submitted successfully!", "success")

StorageFailure(e) == Alert(TRUE, "Database error: " \o e.msg, "danger")

\* The value submit_form returns (or the exception it lets out).
SubmitResult(db, config, n_clicks, now, args) ==
    LET e == InsertError(db, config.table_name, InsertColumns(config),
                         InsertValues(now, args))
    IN IF ~Truthy(n_clicks) THEN NoClickResult
       ELSE IF AnyMissing(args) THEN ValidationFailure
       ELSE IF e = NoError THEN Success
       ELSE IF SubmitCatches(e) THEN StorageFailure(e)
       ELSE Raised(e)

\* Whether submit_form reaches cursor.execute.
SubmitExecutes(n_clicks, args) == Truthy(n_clicks) /\ ~AnyMissing(args)

\* The store after submit_form: committed on success, rolled back otherwise.
SubmitStore(db, config, n_clicks, now, args) ==
    IF /\ SubmitExecutes(n_clicks, args)
       /\ InsertError(db, config.table_name, InsertColumns(config),
                      InsertValues(now, args)) = NoError
    THEN InsertRow(db, config.table_name, InsertColumns(config), InsertValues(now, args))
    ELSE db

(* ---------------- display_admin_table ---------------- *)

\* dbc.Alert("Please select a form type to see the data.", color="info")
Placeholder == Alert(TRUE, "Please select a form type to see the data.", "info")

\* except Exception as e: every failure becomes an alert.
LoadFailure(t, e) ==
    Alert(TRUE, "Error loading data for table '" \o t \o "': " \o e.msg, "danger")

DisplayResult(db, table_name) ==
    LET tbl == Table(db, table_name.s)
    IN IF ~Truthy(table_name) THEN Placeholder
       ELSE IF SelectError(db, table_name.s) = NoError
       THEN DataTable(OrderByIdDesc(tbl.rows),
                      [i \in 1..Len(tbl.columns) |-> tbl.columns[i].name])
       ELSE LoadFailure(table_name.s, SelectError(db, table_name.s))

(* ---------------- inputs ---------------- *)

\* datetime.datetime.now().strftime("%Y-%m-%d %H:%M:%S")
Timestamps == {"2024-03-02 09:00:00"}

\* What the widget of a question hands over: a number for a number input, a
\* string for every other kind.
FieldValue(q, i) == IF q.type = "number" THEN IntVal(<<i>>) ELSE Str(q.id \o " entry")

\* A submission with every value present.
BaseArgs(config) ==
    <<Str("J. Smith"), Str("2024-03-01")>> \o
    [i \in 1..Len(config.questions) |-> FieldValue(config.questions[i], i)]

\* The positions of args that hold the value of a number input.
NumberPositions(config) ==
    { i + 2 : i \in { j \in 1..Len(config.questions) : config.questions[j].type = "number" } }

\* The submissions tried on form f: the complete one; one per position with
\* that value missing (None and '' alternate over positions and forms); the
\* first number field at 2^63 - 1 and at 2^63.
SubmissionArgs(f) ==
    LET config == FORM_CONFIG[f]
        base   == BaseArgs(config)
        nums   == NumberPositions(config)
    IN {base}
       \cup { [base EXCEPT ![i] = IF (i + f) % 2 = 0 THEN None ELSE Str("")] :
                i \in 1..Len(base) }
       \cup { [base EXCEPT ![i] = v] :
                i \in { j \in nums : \A k \in nums : j <= k }, v \in {MaxInt64, MinTooBig} }

\* The click counts tried with a submission: a first click always, no click
\* (None, 0) with the complete submission.
ClickCountsFor(f, args) ==
    IF args = BaseArgs(FORM_CONFIG[f]) THEN {None, IntVal(<<0>>), IntVal(<<1>>)}
    ELSE {IntVal(<<1>>)}

\* The selector's value: nothing, the empty string, or a table name.
SelectorValues == {None, Str("")} \cup { Str(t) : t \in TableNames }

\* A table left by an earlier deployment whose form lacked the last question.
LegacyColumns(config) == SubSeq(DeriveColumns(config), 1, Len(DeriveColumns(config)) - 1)

EmptyStore == [t \in TableNames |-> NoTable]

\* The database file at first start: absent, or left by an earlier deployment
\* that had the first form only, without its last question.
InitialStores ==
    { EmptyStore,
      [EmptyStore EXCEPT ![FORM_CONFIG[1].table_name] =
          [exists |-> TRUE, columns |-> LegacyColumns(FORM_CONFIG[1]), rows |-> {}, seq |-> 0]] }

NoCall == [op |-> "none", form |-> 0, n_clicks |-> None, now |-> "", args |-> <<>>,
           table_name |-> None]

StoreCall(op, t) == [op |-> op, table |-> t]

(* ---------------- the state machine ---------------- *)

Init ==
    /\ pc = "boot"
    /\ tables \in InitialStores
    /\ call = NoCall
    /\ calls = <<>>
    /\ result = NoResult
    /\ created = {}
    /\ inserted = [t \in TableNames |-> 0]
    /\ lastInserted = [t \in TableNames |-> <<>>]

\* Main without the call of init_db.
Main_WithoutInitDb ==
    /\ pc = "boot"
    /\ pc' = "serving"
    /\ call' = [NoCall EXCEPT !.op = "init_db"]
    /\ calls' = <<>>
    /\ result' = NoResult
    /\ UNCHANGED <<tables, created, inserted, lastInserted>>

\* if __name__ == '__main__': init_db(); app.run(...)
Main ==
    /\ pc = "boot"
    /\ tables' = init_db(tables)
    /\ pc' = "serving"
    /\ call' = [NoCall EXCEPT !.op = "init_db"]
    /\ calls' = [i \in Forms |-> StoreCall("create", FORM_CONFIG[i].table_name)]
    /\ result' = NoResult
    /\ created' = created \cup { t \in TableNames : ~tables[t].exists /\ tables'[t].exists }
    /\ UNCHANGED <<inserted, lastInserted>>

\* The process ends and is started again on the same database file.
Restart ==
    /\ pc = "serving"
    /\ pc' = "boot"
    /\ call' = [NoCall EXCEPT !.op = "restart"]
    /\ calls' = <<>>
    /\ result' = NoResult
    /\ UNCHANGED <<tables, created, inserted, lastInserted>>

\* The callback create_form_callback registered for form f is fired.
SubmitForm(f, n_clicks, now, args) ==
    LET config == FORM_CONFIG[f]
        t      == config.table_name
    IN \E res \in {SubmitResult(tables, config, n_clicks, now, args)} :
       LET ok == res.kind = "alert" /\ res.color = "success"
       IN
       /\ pc = "serving"
       /\ tables' = SubmitStore(tables, config, n_clicks, now, args)
       /\ result' = res
       /\ call' = [NoCall EXCEPT !.op = "submit_form", !.form = f, !.n_clicks = n_clicks,
                                 !.now = now, !.args = args]
       /\ calls' = IF SubmitExecutes(n_clicks, args) THEN <<StoreCall("insert", t)>> ELSE <<>>
       /\ inserted' = IF ok THEN [inserted EXCEPT ![t] = @ + 1] ELSE inserted
       /\ lastInserted' = IF ok THEN [lastInserted EXCEPT ![t] = InsertValues(now, args)]
                          ELSE lastInserted
       /\ UNCHANGED <<pc, created>>

DisplayAdminTable(table_name) ==
    /\ pc = "serving"
    /\ result' = DisplayResult(tables, table_name)
    /\ call' = [NoCall EXCEPT !.op = "display_admin_table", !.table_name = table_name]
    /\ calls' = IF Truthy(table_name) THEN <<StoreCall("select", table_name.s)>> ELSE <<>>
    /\ UNCHANGED <<pc, tables, created, inserted, lastInserted>>

\* Some form's callback is fired, while the store is below the bound.
Submit ==
    /\ TotalRows(tables) < MaxRows
    /\ \E f \in Forms, now \in Timestamps :
        \E args \in SubmissionArgs(f) :
            \E n_clicks \in ClickCountsFor(f, args) : SubmitForm(f, n_clicks, now, args)

Display == \E table_name \in SelectorValues : DisplayAdminTable(table_name)

Next == Main \/ Restart \/ Submit \/ Display

Spec == Init /\ [][Next]_vars

(* ---------------- vocabulary of the properties ---------------- *)

\* The form whose table is t.
FormOf(t) == CHOOSE f \in Forms : FORM_CONFIG[f].table_name = t

Missing(v) == v = None \/ v = Str("")

Clicked(n) == n # None /\ n # IntVal(<<0>>)

\* An integer value lies within the signed 64-bit range.
Within64Bits(v) == v.t = "int" => (Len(v.d) <= 4 /\ (Len(v.d) = 4 => v.d[4] <= 32767))

\* The column -> value binding the documentation gives for a submission.
Documented(f, now, args) ==
    [c \in {"SubmissionDate", "TrainerName", "TrainingDate"}
           \cup { FORM_CONFIG[f].questions[i].id : i \in 1..Len(FORM_CONFIG[f].questions) } |->
        IF c = "SubmissionDate" THEN Str(now)
        ELSE IF c = "TrainerName" THEN args[1]
        ELSE IF c = "TrainingDate" THEN args[2]
        ELSE args[2 + CHOOSE i \in 1..Len(FORM_CONFIG[f].questions) :
                          FORM_CONFIG[f].questions[i].id = c]]

\* The step is a click on form f's submit button with every value present.
CompleteSubmission ==
    /\ call'.op = "submit_form"
    /\ Clicked(call'.n_clicks)
    /\ \A i \in 1..Len(call'.args) : ~Missing(call'.args[i])
    /\ FORM_CONFIG[call'.form].table_name \in created

\* The step adds exactly one row to the form's table, holding the documented
\* values, and returns Success.
InsertsDocumentedRow ==
    LET t == FORM_CONFIG[call'.form].table_name
    IN /\ tables[t].rows \subseteq tables'[t].rows
       /\ Cardinality(tables'[t].rows) = Cardinality(tables[t].rows) + 1
       /\ \A r \in tables'[t].rows \ tables[t].rows :
             r.vals = Documented(call'.form, call'.now, call'.args)
       /\ result' = [kind |-> "alert", is_open |-> TRUE,
                     children |-> "Form submitted successfully!", color |-> "success",
                     data |-> <<>>, columns |-> <<>>]

(* ---------------- C1 ---------------- *)

\* C1: a clicked submission with the trainer name, the training date or a field
\* value None or '' leaves every table as it was and returns the open warning
\* alert "Please fill out all required fields.".
C1_ValidationFailure ==
    [][ ( /\ call'.op = "submit_form"
          /\ Clicked(call'.n_clicks)
          /\ \E i \in 1..Len(call'.args) : Missing(call'.args[i]) )
        => ( /\ tables' = tables
             /\ result'.kind = "alert"
             /\ result'.is_open
             /\ result'.children = "Please fill out all required fields."
             /\ result'.color = "warning" ) ]_vars

\* A submission with a value missing has been rejected on a table holding a row.
C1_Witness ==
    /\ call.op = "submit_form"
    /\ Clicked(call.n_clicks)
    /\ \E i \in 1..Len(call.args) : call.args[i] = Str("")
    /\ result.color = "warning"
    /\ tables[FORM_CONFIG[call.form].table_name].rows # {}

(* ---------------- C2 ---------------- *)

C3_ListAll ==
    ( /\ call.op = "display_admin_table"
      /\ call.table_name.t = "str"
      /\ call.table_name.s \in DeclaredTables
      /\ tables[call.table_name.s].exists )
    => LET t == call.table_name.s
           n == inserted[t]
       IN /\ result.kind = "table"
          /\ Len(result.data) = n
          /\ \A i \in 1..(n - 1) : result.data[i].ID > result.data[i + 1].ID
          /\ n > 0 =>
               \A i \in 1..Len(lastInserted[t]) :
                  result.data[1].vals[(<<"SubmissionDate", "TrainerName", "TrainingDate">>
                                       \o [k \in 1..Len(FORM_CONFIG[FormOf(t)].questions) |->
                                             FORM_CONFIG[FormOf(t)].questions[k].id])[i]]
                     = lastInserted[t][i]

\* A table holding two records with different values has been listed.
C3_Witness ==
    /\ call.op = "display_admin_table"
    /\ result.kind = "table"
    /\ Len(result.data) = 2
    /\ result.data[1].vals # result.data[2].vals

(* ---------------- C4 ---------------- *)

\* C4: a run of init_db leaves every table that already exists as it was:
\* its columns, its rows and its ID sequence.
C4_InitDbIdempotent ==
    [][ call'.op = "init_db"
        => \A t \in TableNames : tables[t].exists => tables'[t] = tables[t] ]_vars

\* init_db has run on a file holding a table with rows and a table whose
\* columns are not those the configuration derives.
C4_Witness ==
    /\ call.op = "init_db"
    /\ \E t \in DeclaredTables : tables[t].rows # {}
    /\ \E f \in Forms :
          /\ tables[FORM_CONFIG[f].table_name].exists
          /\ Len(tables[FORM_CONFIG[f].table_name].columns)
               # 4 + Len(FORM_CONFIG[f].questions)

(* ---------------- C5 ---------------- *)

\* C5: a table that init_db created has the columns ID, SubmissionDate,
\* TrainerName, TrainingDate and then one column per declared field, by name
\* and in order, REAL for a number field and TEXT for every other kind.
C5_DerivedLayout ==
    \A f \in Forms :
        LET t  == FORM_CONFIG[f].table_name
            qs == FORM_CONFIG[f].questions
        IN t \in created =>
             /\ Len(tables[t].columns) = 4 + Len(qs)
             /\ tables[t].columns[1].name = "ID"
             /\ tables[t].columns[2].name = "SubmissionDate"
             /\ tables[t].columns[3].name = "TrainerName"
             /\ tables[t].columns[4].name = "TrainingDate"
             /\ \A i \in 1..Len(qs) :
                   /\ tables[t].columns[4 + i].name = qs[i].id
                   /\ qs[i].type = "number" => tables[t].columns[4 + i].type = "REAL"
                   /\ qs[i].type \in {"text", "textarea", "dropdown", "date"}
                        => tables[t].columns[4 + i].type = "TEXT"

\* init_db has run on empty storage and created the table of every form.
C5_Witness ==
    /\ call.op = "init_db"
    /\ created = DeclaredTables

(* ---------------- C6 ---------------- *)

\* C6: a handler whose statement the store did not carry out (it sent one and
\* has neither Success nor a table to show) returns an open danger alert; the
\* failure does not leave the handler as an exception.
C6_StorageErrorNeverEscapes ==
    ( /\ call.op \in {"submit_form", "display_admin_table"}
      /\ calls # <<>>
      /\ ~(result.kind = "alert" /\ result.color = "success")
      /\ result.kind # "table" )
    => ( /\ result.kind = "alert"
         /\ result.is_open
         /\ result.color = "danger"
         /\ Len(calls) = 1 )

(* ---------------- C7 ---------------- *)

\* C7: whenever a handler has sent an insert or a select for a declared form's
\* table, init_db has completed: that table, and every declared table, exists.
C7_CompiledBeforeTraffic ==
    /\ \A i \in 1..Len(calls) :
          (calls[i].op \in {"insert", "select"} /\ calls[i].table \in DeclaredTables)
             => tables[calls[i].table].exists
    /\ call.op \in {"submit_form", "display_admin_table"}
         => \A t \in DeclaredTables : tables[t].exists

\* The first submission after start has reached the store.
C7_Witness ==
    /\ call.op = "submit_form"
    /\ Len(calls) = 1
    /\ calls[1].op = "insert"
    /\ inserted[calls[1].table] = 1

(* ---------------- C8 ---------------- *)

\* C8 as stated: every result of submit_form has a severity among info,
\* success, warning and danger.
C8_Original ==
    (call.op = "submit_form" /\ result.kind = "alert")
       => result.color \in {"info", "success", "warning", "danger"}

\* C8 amended: the result of a clicked submission has a severity among info,
\* success, warning and danger; the result for a click count None or 0 is the
\* closed, empty alert of severity light.
C8_Amended ==
    (call.op = "submit_form" /\ result.kind = "alert")
       => IF Clicked(call.n_clicks)
          THEN result.color \in {"info", "success", "warning", "danger"}
          ELSE /\ ~result.is_open
               /\ result.children = ""
               /\ result.color = "light"

\* A form has been fired with no click, after a record had been stored, and
\* has returned the closed light alert.
C8_Witness ==
    /\ call.op = "submit_form"
    /\ call.n_clicks = None
    /\ result.color = "light"
    /\ \E t \in DeclaredTables : inserted[t] > 0

(* ---------------- C9 ---------------- *)

\* C9: no step removes or alters a row; a submission changes no table but its
\* form's, and display_admin_table changes no table.
C9_RecordsImmutable ==
    [][ /\ \A t \in TableNames : tables[t].rows \subseteq tables'[t].rows
        /\ call'.op = "submit_form"
             => \A t \in TableNames \ {FORM_CONFIG[call'.form].table_name} :
                   tables'[t] = tables[t]
        /\ call'.op = "display_admin_table" => tables' = tables ]_vars

\* Two tables hold a record each after submissions, a restart and init_db.
C9_Witness ==
    /\ call.op = "init_db"
    /\ \E t1, t2 \in DeclaredTables :
          t1 # t2 /\ tables[t1].rows # {} /\ tables[t2].rows # {}

(* ---------------- C10 ---------------- *)

\* C10: display_admin_table with None or '' for the table name sends nothing
\* to the store, changes no table and returns the info placeholder.
C10_NoSelection ==
    [][ ( /\ call'.op = "display_admin_table"
          /\ Missing(call'.table_name) )
        => ( /\ calls' = <<>>
             /\ tables' = tables
             /\ result'.kind = "alert"
             /\ result'.color = "info"
             /\ result'.children = "Please select a form type to see the data." ) ]_vars

\* The placeholder has been returned for '' with records in the store.
C10_Witness ==
    /\ call.op = "display_admin_table"
    /\ call.table_name = Str("")
    /\ result.color = "info"
    /\ \E t \in DeclaredTables : tables[t].rows # {}

====
